---- MODULE Spec2Model ----
(***************************************************************************)
(* Model of the schema-driven RPC gateway in src/serve:                    *)
(*   - src/serve/httprule/handler.go : the REST Handler, its rule table,   *)
(*     the per-request stream adapter (serverStream), content negotiation  *)
(*     and the response / error writers;                                   *)
(*   - src/serve/server.go : NewServer, descriptor-set loading, the        *)
(*     binary-protocol entry point UnknownHandler and lookupMethod.        *)
(*                                                                         *)
(* Code of the repository that is not part of src/ (MatchRequest,          *)
(* DecodeRequest, HTTPStatusFromCode, the media type constants, the        *)
(* dispatcher callMethod and registry.Files) is modelled from spec.md.     *)
(*                                                                         *)
(* Strings that the code takes apart (method names, full names) are        *)
(* sequences of tokens; a request path is the sequence of its components.  *)
(***************************************************************************)
EXTENDS Integers, Sequences, FiniteSets, TLC

(***************************************************************************)
(* Bounds                                                                  *)
(***************************************************************************)
\* number of request slots (concurrently served REST requests)
NumReqs == 2
\* longest request path, in components
MaxPathLen == 3
\* most methods of the service of the REST registry
MaxMethods == 2
\* longest method string of a binary-protocol call, in tokens
MaxMethodLen == 6

Reqs == 1..NumReqs

(***************************************************************************)
(* Media types and header values                                           *)
(***************************************************************************)
ContentTypeJSON == "application/json"
ContentTypeBinaryProto == "application/x-protobuf"

\* A header value as the client wrote it: base is the media type in lower
\* case ("" for an absent or empty header, "list" for a comma separated
\* list such as "application/json, text/html"), upper says that the client
\* wrote the type in upper case, param describes what follows the type:
\* nothing, a well formed parameter ("; charset=utf-8") or a malformed one.
NoHeader == [base |-> "", upper |-> FALSE, param |-> "none"]
StarStar == [base |-> "*/*", upper |-> FALSE, param |-> "none"]
HeaderBases == {ContentTypeJSON, ContentTypeBinaryProto, "text/html", "*/*", "list"}
HeaderValues ==
  {NoHeader} \cup
  { h \in [base : HeaderBases, upper : BOOLEAN, param : {"none", "charset", "malformed"}] :
      h.base = "*/*" => ~h.upper }

Hdr(b) == [base |-> b, upper |-> FALSE, param |-> "none"]

\* mime.ParseMediaType: the media type in lower case without its parameters,
\* or an error for a malformed value.
ParseMediaType(h) ==
  IF h.base = "list" \/ h.param = "malformed"
    THEN [err |-> TRUE, mediaType |-> ""]
    ELSE [err |-> FALSE, mediaType |-> h.base]

\* the Go comparison of the raw header value with a literal media type
RawEquals(h, lit) == h.base = lit /\ ~h.upper /\ h.param = "none"

getAcceptType_CTFirst(accept, contentType) ==
  LET a == IF contentType = NoHeader THEN accept ELSE contentType
      parsed == IF a # NoHeader /\ ~RawEquals(a, "*/*")
                  THEN ParseMediaType(a)
                  ELSE [err |-> FALSE, mediaType |-> ContentTypeJSON]
  IN  IF parsed.err THEN [err |-> TRUE, mediaType |-> ""]
      ELSE IF parsed.mediaType # ContentTypeBinaryProto /\ parsed.mediaType # ContentTypeJSON
        THEN [err |-> TRUE, mediaType |-> ""]
        ELSE [err |-> FALSE, mediaType |-> parsed.mediaType]

\* getAcceptType: the negotiated media type of a request, or an error
getAcceptType(accept, contentType) ==
  LET a == IF accept = NoHeader THEN contentType ELSE accept
      parsed == IF a # NoHeader /\ ~RawEquals(a, "*/*")
                  THEN ParseMediaType(a)
                  ELSE [err |-> FALSE, mediaType |-> ContentTypeJSON]
  IN  IF parsed.err THEN [err |-> TRUE, mediaType |-> ""]
      ELSE IF parsed.mediaType # ContentTypeBinaryProto /\ parsed.mediaType # ContentTypeJSON
        THEN [err |-> TRUE, mediaType |-> ""]
        ELSE [err |-> FALSE, mediaType |-> parsed.mediaType]

(***************************************************************************)
(* RPC status codes                                                        *)
(***************************************************************************)
Codes == 0..16
CodeUnknown == 2
CodeInvalidArgument == 3
CodeUnimplemented == 12
CodeInternal == 13
StatusInternalServerError == 500

\* HTTPStatusFromCode: the fixed RPC -> HTTP status table
HTTPStatusFromCode(c) ==
  CASE c = 0 -> 200
    [] c = 1 -> 499
    [] c = 2 -> 500
    [] c = 3 -> 400
    [] c = 4 -> 504
    [] c = 5 -> 404
    [] c = 6 -> 409
    [] c = 7 -> 403
    [] c = 16 -> 401
    [] c = 8 -> 429
    [] c = 9 -> 400
    [] c = 10 -> 409
    [] c = 11 -> 400
    [] c = 12 -> 501
    [] c = 13 -> 500
    [] c = 14 -> 503
    [] c = 15 -> 500
    [] OTHER -> 500

(***************************************************************************)
(* Path templates and matching                                             *)
(***************************************************************************)
\* a path component and a literal segment are sequences of tokens
Components == {<<"v1">>, <<"users">>, <<"42">>}
Verbs == {"GET", "POST"}

RECURSIVE SeqsUpTo(_, _)
SeqsUpTo(S, n) ==
  IF n = 0 THEN {<<>>}
  ELSE LET shorter == SeqsUpTo(S, n - 1)
       IN  shorter \cup { Append(s, x) : s \in { t \in shorter : Len(t) = n - 1 }, x \in S }

Paths == SeqsUpTo(Components, MaxPathLen)

\* a template segment: a literal, the variable {name} or {name=**}
Lit(v) == [k |-> "lit", v |-> v, name |-> ""]
Var(n) == [k |-> "var", v |-> <<>>, name |-> n]
Rest(n) == [k |-> "rest", v |-> <<>>, name |-> n]

\* the result of a match: nil ("no match") or the map of the bindings
NoMatch == [nil |-> TRUE, vars |-> <<>>]
Bound(vars) == [nil |-> FALSE, vars |-> vars]

RECURSIVE MatchPath(_, _, _)
\* the compiled matcher of a template applied to a path: literal segments
\* match byte for byte, {name} captures one component, {name=**} captures
\* the remainder of the path
MatchPath(tmpl, path, vars) ==
  IF tmpl = <<>> THEN (IF path = <<>> THEN Bound(vars) ELSE NoMatch)
  ELSE LET seg == Head(tmpl) IN
    IF seg.k = "rest" THEN Bound(vars @@ (seg.name :> path))
    ELSE IF path = <<>> THEN NoMatch
    ELSE IF seg.k = "lit"
      THEN (IF seg.v = Head(path) THEN MatchPath(Tail(tmpl), Tail(path), vars) ELSE NoMatch)
      ELSE MatchPath(Tail(tmpl), Tail(path), vars @@ (seg.name :> <<Head(path)>>))

\* MatchRequest: the verb and the compiled matcher must both accept
MatchRequest(rule, r) ==
  IF rule.verb # r.verb THEN NoMatch ELSE MatchPath(rule.tmpl, r.path, <<>>)


(***************************************************************************)
(* Descriptors and the rule table                                          *)
(***************************************************************************)
\* A file descriptor is [path, pkg, deps, services], a service descriptor
\* [name, methods], a method descriptor [name, rules], where rules is what
\* Collect returns for the method: its declared rules, the primary rule
\* first and the additional bindings after it.  A rule is [verb, tmpl].

\* protoreflect.FullName of a method: pkg.Service.Method
FullName(pkg, service, method) == <<pkg, ".", service, ".", method>>

RECURSIVE ReplaceAll(_, _, _)
\* strings.ReplaceAll on a token sequence
ReplaceAll(s, old, new) ==
  IF s = <<>> THEN <<>>
  ELSE (IF Head(s) = old THEN <<new>> ELSE <<Head(s)>>) \o ReplaceAll(Tail(s), old, new)

interpolate(path, pkg, service, method) ==
  LET p1 == ReplaceAll(path, "{package}", pkg)
      p2 == ReplaceAll(p1, "{service}", service)
  IN  ReplaceAll(p2, "{method}", method)

\* the rules interpolateHTTPRules computes: every template with the
\* placeholders of its literal segments replaced
interpolatedRules(httpRuleTemplates, pkg, service, method) ==
  [i \in 1..Len(httpRuleTemplates) |->
     [verb |-> httpRuleTemplates[i].verb,
      tmpl |-> [j \in 1..Len(httpRuleTemplates[i].tmpl) |->
                  LET seg == httpRuleTemplates[i].tmpl[j]
                  IN  IF seg.k = "lit"
                        THEN Lit(interpolate(seg.v, pkg, service, method))
                        ELSE seg]]]

interpolateHTTPRules_NoClone(httpRuleTemplates, pkg, service, method) ==
  [rules |-> interpolatedRules(httpRuleTemplates, pkg, service, method),
   templates |-> interpolatedRules(httpRuleTemplates, pkg, service, method)]

\* interpolateHTTPRules: the rules are written into clones (proto.Clone) of
\* the templates; templates is what the caller's templates hold afterwards
interpolateHTTPRules(httpRuleTemplates, pkg, service, method) ==
  [rules |-> interpolatedRules(httpRuleTemplates, pkg, service, method),
   templates |-> httpRuleTemplates]

RECURSIVE Flatten(_)
Flatten(ss) == IF ss = <<>> THEN <<>> ELSE Head(ss) \o Flatten(Tail(ss))

\* the entries of one method, lines 141-149 of loadHTTPRules, and the
\* templates afterwards
methodEntries(fd, sd, md, httpRuleTemplates) ==
  LET synth == Len(md.rules) = 0 /\ Len(httpRuleTemplates) # 0
      ip == interpolateHTTPRules(httpRuleTemplates, fd.pkg, sd.name, md.name)
      rules == IF synth THEN ip.rules ELSE md.rules
  IN  [entries |-> [i \in 1..Len(rules) |->
                      [desc |-> FullName(fd.pkg, sd.name, md.name), rule |-> rules[i]]],
       templates |-> IF synth THEN ip.templates ELSE httpRuleTemplates]

\* the methods in the order loadHTTPRules visits them: file, service, method
methodsInOrder(fileOrder) ==
  Flatten([f \in 1..Len(fileOrder) |->
    Flatten([i \in 1..Len(fileOrder[f].services) |->
      [j \in 1..Len(fileOrder[f].services[i].methods) |->
         [fd |-> fileOrder[f], sd |-> fileOrder[f].services[i],
          md |-> fileOrder[f].services[i].methods[j]]]])])

RECURSIVE loadLoop(_, _)
loadLoop(ms, st) ==
  IF ms = <<>> THEN st
  ELSE LET e == methodEntries(Head(ms).fd, Head(ms).sd, Head(ms).md, st.templates)
       IN  loadLoop(Tail(ms), [httpMethods |-> st.httpMethods \o e.entries,
                               templates |-> e.templates])

\* loadHTTPRules over the files in the order RangeFiles yields them: the
\* rule table, and the templates afterwards
loadHTTPRules(fileOrder, httpRuleTemplates) ==
  loadLoop(methodsInOrder(fileOrder), [httpMethods |-> <<>>, templates |-> httpRuleTemplates])

\* the orders in which RangeFiles may yield the registered files
RangeOrders(s) ==
  { [i \in 1..Len(s) |-> s[p[i]]] :
      p \in { q \in [1..Len(s) -> 1..Len(s)] : \A a, b \in 1..Len(s) : q[a] = q[b] => a = b } }

RECURSIVE FirstBoundFrom(_, _, _)
FirstBoundFrom(table, r, i) ==
  IF i > Len(table) THEN 0
  ELSE IF MatchRequest(table[i].rule, r).vars # <<>> THEN i
  ELSE FirstBoundFrom(table, r, i + 1)

matchLoop_EmptyIsNoMatch(table, r, i) == FirstBoundFrom(table, r, i)

RECURSIVE LastMatchFrom(_, _, _)
LastMatchFrom(table, r, i) ==
  IF i = 0 THEN 0
  ELSE IF ~MatchRequest(table[i].rule, r).nil THEN i
  ELSE LastMatchFrom(table, r, i - 1)

matchLoop_Last(table, r, i) == LastMatchFrom(table, r, Len(table))

RECURSIVE matchLoop(_, _, _)
\* the loop of Handler.ServeHTTP from entry i on: the index of the entry
\* that is served, 0 when the loop ends without a match
matchLoop(table, r, i) ==
  IF i > Len(table) THEN 0
  ELSE IF ~MatchRequest(table[i].rule, r).nil THEN i
  ELSE matchLoop(table, r, i + 1)


(***************************************************************************)
(* Errors, messages and their encodings                                    *)
(***************************************************************************)
\* a Go error: nil, an error that carries an RPC status, or a plain error
NilErr == [nil |-> TRUE, isStatus |-> FALSE, code |-> 0, msg |-> ""]
StatusErr(c, m) == [nil |-> FALSE, isStatus |-> TRUE, code |-> c, msg |-> m]
PlainErr(m) == [nil |-> FALSE, isStatus |-> FALSE, code |-> 0, msg |-> m]

\* messages: "nil" is the nil proto.Message; the response "rBad" and the
\* status message "mBad" hold a string that is not valid UTF-8, which no marshaler encodes
NilMsg == "nil"
StatusMsgs == {"m1", "mBad"}
Marshalable(v) == v \notin {"rBad", "mBad"}

\* status.Convert: the status an error carries, Unknown for a plain error
Convert(err) ==
  IF err.nil THEN [code |-> 0, msg |-> ""]
  ELSE IF err.isStatus THEN [code |-> err.code, msg |-> err.msg]
  ELSE [code |-> CodeUnknown, msg |-> err.msg]

\* marshalerForContentType: the marshaler of a media type, "panic" for the
\* panic("invalid content type")
marshalerForContentType(mediaType) ==
  CASE mediaType = ContentTypeBinaryProto -> "proto.Marshal"
    [] mediaType = ContentTypeJSON -> "protojson.Marshal"
    [] OTHER -> "panic"

\* proto.Marshal / protojson.Marshal of a response message
MarshalMsg(marshaler, m) ==
  IF Marshalable(m)
    THEN [err |-> NilErr, buf |-> [enc |-> marshaler, kind |-> "msg", val |-> m, code |-> 0]]
    ELSE [err |-> PlainErr("invalid UTF-8"), buf |-> <<>>]

\* proto.Marshal / protojson.Marshal of st.Proto()
MarshalStatus(marshaler, st) ==
  IF Marshalable(st.msg)
    THEN [err |-> NilErr, buf |-> [enc |-> marshaler, kind |-> "status", val |-> st.msg, code |-> st.code]]
    ELSE [err |-> PlainErr("invalid UTF-8"), buf |-> <<>>]

\* the constant errMarshalFailed of writeError
errMarshalFailed ==
  [enc |-> "literal", kind |-> "status", val |-> "failed to marshal error message",
   code |-> CodeInternal]

(***************************************************************************)
(* http.ResponseWriter: status 0 until the header is written; body is the  *)
(* sequence of the buffers handed to Write                                 *)
(***************************************************************************)
NewResponseWriter == [status |-> 0, contentType |-> "", body |-> <<>>]
SetContentType(w, t) == [w EXCEPT !.contentType = t]
WriteHeader(w, c) == IF w.status = 0 THEN [w EXCEPT !.status = c] ELSE w
Write(w, buf) ==
  [w EXCEPT !.status = IF w.status = 0 THEN 200 ELSE w.status,
            !.body = Append(w.body, buf)]

(***************************************************************************)
(* serverStream, the stream adapter of one request                         *)
(***************************************************************************)
NoStream == [exists |-> FALSE, rule |-> 0, vars |-> <<>>, acceptType |-> "", resp |-> NilMsg]
NewStream(i, vars) ==
  [exists |-> TRUE, rule |-> i, vars |-> vars, acceptType |-> "", resp |-> NilMsg]

SendMsg_Discard(s, m) ==
  IF s.resp # NilMsg
    THEN [panic |-> "only one response expected!", s |-> s, err |-> NilErr]
    ELSE [panic |-> "", s |-> s, err |-> NilErr]

\* serverStream.SendMsg
SendMsg(s, m) ==
  IF s.resp # NilMsg
    THEN [panic |-> "only one response expected!", s |-> s, err |-> NilErr]
    ELSE [panic |-> "", s |-> [s EXCEPT !.resp = m], err |-> NilErr]

\* DecodeRequest: binds path variables, body and query parameters into the
\* request message; InvalidArgument when a value does not convert
DecodeRequest(rule, vars, r) ==
  IF r.body = "bad" THEN StatusErr(CodeInvalidArgument, "m1") ELSE NilErr

RecvMsg_DecodeFirst(s, r) ==
  LET a == getAcceptType(r.accept, r.contentType)
      d == DecodeRequest(s.rule, s.vars, r)
  IN  IF ~d.nil
        THEN [s |-> s, err |-> d, decoded |-> TRUE]
        ELSE [s |-> [s EXCEPT !.acceptType = a.mediaType],
              err |-> IF a.err THEN PlainErr("m1") ELSE NilErr, decoded |-> TRUE]

\* serverStream.RecvMsg: negotiate, then bind
RecvMsg(s, r) ==
  LET a == getAcceptType(r.accept, r.contentType)
      s1 == [s EXCEPT !.acceptType = a.mediaType]
  IN  IF a.err
        THEN [s |-> s1, err |-> PlainErr("m1"), decoded |-> FALSE]
        ELSE [s |-> s1, err |-> DecodeRequest(s.rule, s.vars, r), decoded |-> TRUE]

writeError_NoFallback(s, w, err) ==
  LET st == Convert(err)
      marshaler == IF s.acceptType # "" THEN marshalerForContentType(s.acceptType)
                   ELSE "protojson.Marshal"
      w1 == IF s.acceptType # "" THEN SetContentType(w, s.acceptType) ELSE w
      m == MarshalStatus(marshaler, st)
  IN  IF marshaler = "panic" THEN [panic |-> "invalid content type", w |-> w]
      ELSE IF ~m.err.nil
        THEN [panic |-> "", w |-> w1]
        ELSE [panic |-> "", w |-> Write(WriteHeader(w1, HTTPStatusFromCode(st.code)), m.buf)]

writeError_AlwaysUnknown(s, w, err) ==
  LET st == [code |-> CodeUnknown, msg |-> err.msg]
      marshaler == IF s.acceptType # "" THEN marshalerForContentType(s.acceptType)
                   ELSE "protojson.Marshal"
      w1 == IF s.acceptType # "" THEN SetContentType(w, s.acceptType) ELSE w
      m == MarshalStatus(marshaler, st)
  IN  IF marshaler = "panic" THEN [panic |-> "invalid content type", w |-> w]
      ELSE IF ~m.err.nil
        THEN [panic |-> "", w |-> Write(WriteHeader(w1, StatusInternalServerError), errMarshalFailed)]
        ELSE [panic |-> "", w |-> Write(WriteHeader(w1, HTTPStatusFromCode(st.code)), m.buf)]

\* serverStream.writeError
writeError(s, w, err) ==
  LET st == Convert(err)
      marshaler == IF s.acceptType # "" THEN marshalerForContentType(s.acceptType)
                   ELSE "protojson.Marshal"
      w1 == IF s.acceptType # "" THEN SetContentType(w, s.acceptType) ELSE w
      m == MarshalStatus(marshaler, st)
  IN  IF marshaler = "panic" THEN [panic |-> "invalid content type", w |-> w]
      ELSE IF ~m.err.nil
        THEN [panic |-> "", w |-> Write(WriteHeader(w1, StatusInternalServerError), errMarshalFailed)]
        ELSE [panic |-> "", w |-> Write(WriteHeader(w1, HTTPStatusFromCode(st.code)), m.buf)]

\* serverStream.writeResp; viaError says that it ended in writeError
writeResp(s, w) ==
  LET marshaler == marshalerForContentType(s.acceptType)
      m == MarshalMsg(marshaler, s.resp)
  IN  IF marshaler = "panic" THEN [panic |-> "invalid content type", w |-> w, viaError |-> FALSE]
      ELSE IF ~m.err.nil
        THEN [panic |-> writeError(s, w, m.err).panic, w |-> writeError(s, w, m.err).w,
              viaError |-> TRUE]
        ELSE [panic |-> "", w |-> Write(w, m.buf), viaError |-> FALSE]


(***************************************************************************)
(* State                                                                   *)
(***************************************************************************)
VARIABLES
  phase,          \* "loaded": the Registry is built, the Handler is not; "serving"
  files,          \* the Registry: the registered file descriptors
  opts,           \* the arguments of NewHandler: grpc handler and options
  httpMethods,    \* Handler.httpMethods, the rule table
  ruleTemplates,  \* Handler.ruleTemplates
  defaultHandler, \* Handler.defaultHandler
  grpcHandler,    \* Handler.grpcHandler
  req,            \* req[r]: the HTTP request of slot r
  evalRes,        \* evalRes[r]: what the Evaluator returns when called for r
  pc,             \* pc[r]: where the handling of request r stands
  ss,             \* ss[r]: the serverStream of request r
  hret,           \* hret[r]: the error the grpc handler returns
  w,              \* w[r]: the http.ResponseWriter of request r
  dispatched,     \* dispatched[r]: the entries handed to the grpc handler
  calls,          \* calls[r]: how often each operation ran for request r
  panicMsg,       \* panicMsg[r]: the panic that ended the handling, "" if none
  gcall,          \* the binary-protocol call: what grpc.Method yields, the Evaluator's result
  gpc,            \* where the binary-protocol call stands
  gret,           \* the error UnknownHandler returns
  gcalls,         \* the full names callMethod was invoked with by UnknownHandler
  protosets,      \* Server.protosets: the content found at each explicit path
  vfs,            \* Server.fs: the files of the virtual filesystem
  lstep,          \* the loop loadProtosets is in
  li,             \* the next explicit protoset
  matches,        \* the result of fs.Glob
  mi,             \* the next match
  seen,           \* the map seen of loadProtosets
  logged,         \* the file paths of the "cannot register" error log lines
  loadErr         \* the error NewServer returns, "" if none

hvars == <<httpMethods, ruleTemplates, defaultHandler, grpcHandler>>
rvars == <<req, evalRes, pc, ss, hret, w, dispatched, calls, panicMsg>>
gvars == <<gcall, gpc, gret, gcalls>>
lvars == <<protosets, vfs, lstep, li, matches, mi, seen, logged, loadErr>>
vars == <<phase, files, opts, hvars, rvars, gvars, lvars>>

NoCalls ==
  [default |-> 0, recv |-> 0, decode |-> 0, eval |-> 0, send |-> 0,
   writeResp |-> 0, writeError |-> 0]

(***************************************************************************)
(* Inputs                                                                  *)
(***************************************************************************)
RuleLit == [verb |-> "GET", tmpl |-> <<Lit(<<"v1">>), Lit(<<"users">>)>>]
RuleId == [verb |-> "GET", tmpl |-> <<Lit(<<"v1">>), Lit(<<"users">>), Var("id")>>]
RuleRest == [verb |-> "GET", tmpl |-> <<Lit(<<"v1">>), Rest("rest")>>]
RulePost == [verb |-> "POST", tmpl |-> <<Lit(<<"v1">>), Lit(<<"users">>)>>]
RuleSet == {RuleLit, RuleId, RuleRest, RulePost}

\* the fallback template POST /{package}.{service}/{method}
TemplatePost ==
  [verb |-> "POST",
   tmpl |-> <<Lit(<<"{package}", ".", "{service}">>), Lit(<<"{method}">>)>>]

MethodNames == <<"M1", "M2", "M3", "M4">>

\* the declared rules of a method: none, or a primary rule
RuleLists == {<<>>} \cup { <<x>> : x \in RuleSet }

\* the method lists of a service: method j is named MethodNames[j]
MethodLists ==
  UNION { { [j \in 1..n |-> [name |-> MethodNames[j], rules |-> rl[j]]] :
              rl \in [1..n -> RuleLists] } : n \in 0..MaxMethods }

FileOf(path, pkg, deps, methods) ==
  [path |-> path, pkg |-> pkg, deps |-> deps,
   services |-> <<[name |-> "S", methods |-> methods]>>]

\* the registries of one file with one service
RestRegistries == { <<FileOf("a.proto", "p", {}, ms)>> : ms \in MethodLists }

\* an HTTP/1.1 request; OverHTTP2 is the same request sent over HTTP/2
Request(verb, path, accept, contentType, body) ==
  [verb |-> verb, path |-> path, accept |-> accept, contentType |-> contentType,
   body |-> body, protoMajor |-> 1]
OverHTTP2(rq) == [rq EXCEPT !.protoMajor = 2]
NoRequest == Request("", <<>>, NoHeader, NoHeader, "ok")

EvalOK(v) == [err |-> NilErr, resp |-> v]
EvalErr(c, m) == [err |-> StatusErr(c, m), resp |-> NilMsg]
EvalResults ==
  { EvalOK(v) : v \in {"r1", "rBad"} } \cup
  { EvalErr(c, m) : c \in Codes, m \in StatusMsgs }

Options(handler, dh, tmpls) ==
  [handler |-> handler, defaultHandler |-> dh, ruleTemplates |-> tmpls]

(***************************************************************************)
(* Construction                                                            *)
(***************************************************************************)
NewHandler_NoDefault(o, fileOrder) ==
  [httpMethods |-> loadHTTPRules(fileOrder, o.ruleTemplates).httpMethods,
   ruleTemplates |-> loadHTTPRules(fileOrder, o.ruleTemplates).templates,
   defaultHandler |-> o.defaultHandler,
   grpcHandler |-> o.handler]

\* NewHandler: the Handler built from the options; WithDefaultHandler
\* replaces the NotFound handler, WithRuleTemplates sets the templates
NewHandler(o, fileOrder) ==
  [httpMethods |-> loadHTTPRules(fileOrder, o.ruleTemplates).httpMethods,
   ruleTemplates |-> loadHTTPRules(fileOrder, o.ruleTemplates).templates,
   defaultHandler |-> IF o.defaultHandler = "" THEN "NotFound" ELSE o.defaultHandler,
   grpcHandler |-> o.handler]

\* the last step of NewServer: s.http = httprule.NewServer(s.files, ...)
Construct ==
  /\ phase = "loaded"
  /\ \E fileOrder \in RangeOrders(files) :
       LET h == NewHandler(opts, fileOrder) IN
         /\ httpMethods' = h.httpMethods
         /\ ruleTemplates' = h.ruleTemplates
         /\ defaultHandler' = h.defaultHandler
         /\ grpcHandler' = h.grpcHandler
  /\ phase' = "serving"
  /\ UNCHANGED <<files, opts, rvars, gvars, lvars>>

(***************************************************************************)
(* Serving a REST request                                                  *)
(***************************************************************************)
\* what the default handler writes: http.NotFoundHandler answers 404
ServeDefault(dh, wr) ==
  IF dh = "NotFound"
    THEN Write(WriteHeader(wr, 404), [enc |-> "text", kind |-> "text", val |-> "404 page not found", code |-> 0])
    ELSE Write(wr, [enc |-> "text", kind |-> "text", val |-> dh, code |-> 0])

ServeHTTP_SharedStream(r) ==
  /\ phase = "serving"
  /\ pc[r] = "serve"
  /\ LET i == matchLoop(httpMethods, req[r], 1) IN
       IF i = 0
         THEN /\ w' = [w EXCEPT ![r] = ServeDefault(defaultHandler, @)]
              /\ calls' = [calls EXCEPT ![r].default = @ + 1]
              /\ pc' = [pc EXCEPT ![r] = "done"]
              /\ UNCHANGED <<ss, dispatched>>
         ELSE /\ ss' = [q \in Reqs |->
                          IF q = r \/ ss[q].exists
                            THEN NewStream(i, MatchRequest(httpMethods[i].rule, req[r]).vars)
                            ELSE ss[q]]
              /\ dispatched' = [dispatched EXCEPT ![r] =
                          Append(@, [entry |-> i, name |-> httpMethods[i].desc])]
              /\ pc' = [pc EXCEPT ![r] = IF grpcHandler = "callMethod" THEN "recv" ELSE "handler"]
              /\ UNCHANGED <<w, calls>>
  /\ UNCHANGED <<gvars, lvars, phase, files, opts, hvars, req, evalRes, hret, panicMsg>>

ServeHTTP_MoveToFront(r) ==
  /\ phase = "serving"
  /\ pc[r] = "serve"
  /\ LET i == matchLoop(httpMethods, req[r], 1) IN
       IF i = 0
         THEN /\ w' = [w EXCEPT ![r] = ServeDefault(defaultHandler, @)]
              /\ calls' = [calls EXCEPT ![r].default = @ + 1]
              /\ pc' = [pc EXCEPT ![r] = "done"]
              /\ UNCHANGED <<ss, dispatched, httpMethods>>
         ELSE /\ ss' = [ss EXCEPT ![r] =
                          NewStream(i, MatchRequest(httpMethods[i].rule, req[r]).vars)]
              /\ dispatched' = [dispatched EXCEPT ![r] =
                          Append(@, [entry |-> i, name |-> httpMethods[i].desc])]
              /\ pc' = [pc EXCEPT ![r] = IF grpcHandler = "callMethod" THEN "recv" ELSE "handler"]
              /\ httpMethods' = <<httpMethods[i]>> \o SubSeq(httpMethods, 1, i - 1)
                                  \o SubSeq(httpMethods, i + 1, Len(httpMethods))
              /\ UNCHANGED <<w, calls>>
  /\ UNCHANGED <<gvars, lvars, phase, files, opts, ruleTemplates, defaultHandler,
                 grpcHandler, req, evalRes, hret, panicMsg>>

\* Handler.ServeHTTP up to the call of the grpc handler in serveHTTPMethod
ServeHTTP(r) ==
  /\ phase = "serving"
  /\ pc[r] = "serve"
  /\ LET i == matchLoop(httpMethods, req[r], 1) IN
       IF i = 0
         THEN /\ w' = [w EXCEPT ![r] = ServeDefault(defaultHandler, @)]
              /\ calls' = [calls EXCEPT ![r].default = @ + 1]
              /\ pc' = [pc EXCEPT ![r] = "done"]
              /\ UNCHANGED <<ss, dispatched>>
         ELSE /\ ss' = [ss EXCEPT ![r] =
                          NewStream(i, MatchRequest(httpMethods[i].rule, req[r]).vars)]
              /\ dispatched' = [dispatched EXCEPT ![r] =
                          Append(@, [entry |-> i, name |-> httpMethods[i].desc])]
              /\ pc' = [pc EXCEPT ![r] = IF grpcHandler = "callMethod" THEN "recv" ELSE "handler"]
              /\ UNCHANGED <<w, calls>>
  /\ UNCHANGED <<gvars, lvars, phase, files, opts, hvars, req, evalRes, hret, panicMsg>>

\* callMethod: receive the one request value
CallRecv(r) ==
  /\ pc[r] = "recv"
  /\ LET res == RecvMsg(ss[r], req[r]) IN
       /\ ss' = [ss EXCEPT ![r] = res.s]
       /\ calls' = [calls EXCEPT ![r].recv = @ + 1,
                                 ![r].decode = @ + (IF res.decoded THEN 1 ELSE 0)]
       /\ hret' = [hret EXCEPT ![r] = res.err]
       /\ pc' = [pc EXCEPT ![r] = IF res.err.nil THEN "eval" ELSE "ret"]
  /\ UNCHANGED <<gvars, lvars, phase, files, opts, hvars, req, evalRes, w, dispatched, panicMsg>>

\* callMethod: invoke the Evaluator with the descriptor and the request
CallEval(r) ==
  /\ pc[r] = "eval"
  /\ calls' = [calls EXCEPT ![r].eval = @ + 1]
  /\ hret' = [hret EXCEPT ![r] = evalRes[r].err]
  /\ pc' = [pc EXCEPT ![r] = IF evalRes[r].err.nil THEN "send" ELSE "ret"]
  /\ UNCHANGED <<gvars, lvars, phase, files, opts, hvars, req, evalRes, ss, w, dispatched, panicMsg>>

\* callMethod: send the one response value
CallSend(r) ==
  /\ pc[r] = "send"
  /\ LET res == SendMsg(ss[r], evalRes[r].resp) IN
       /\ ss' = [ss EXCEPT ![r] = res.s]
       /\ calls' = [calls EXCEPT ![r].send = @ + 1]
       /\ hret' = [hret EXCEPT ![r] = res.err]
       /\ panicMsg' = [panicMsg EXCEPT ![r] = res.panic]
       /\ pc' = [pc EXCEPT ![r] = IF res.panic # "" THEN "panic" ELSE "ret"]
  /\ UNCHANGED <<gvars, lvars, phase, files, opts, hvars, req, evalRes, w, dispatched>>

serveHTTPMethodTail_NoReturn(s, wr, err) ==
  IF ~err.nil
    THEN LET e == writeError(s, wr, err)
             res == writeResp(s, e.w)
         IN  [panic |-> res.panic, w |-> res.w, writeResp |-> 1, writeError |-> 1]
    ELSE LET res == writeResp(s, wr)
         IN  [panic |-> res.panic, w |-> res.w, writeResp |-> 1,
              writeError |-> IF res.viaError THEN 1 ELSE 0]

\* lines 125-129 of serveHTTPMethod: writeError for an error of the grpc
\* handler, writeResp otherwise; with the number of calls of each writer
serveHTTPMethodTail(s, wr, err) ==
  IF ~err.nil
    THEN LET res == writeError(s, wr, err)
         IN  [panic |-> res.panic, w |-> res.w, writeResp |-> 0, writeError |-> 1]
    ELSE LET res == writeResp(s, wr)
         IN  [panic |-> res.panic, w |-> res.w, writeResp |-> 1,
              writeError |-> IF res.viaError THEN 1 ELSE 0]

\* serveHTTPMethod after the grpc handler returned
serveHTTPMethodReturn(r) ==
  /\ pc[r] = "ret"
  /\ LET res == serveHTTPMethodTail(ss[r], w[r], hret[r]) IN
       /\ w' = [w EXCEPT ![r] = res.w]
       /\ calls' = [calls EXCEPT ![r].writeResp = @ + res.writeResp,
                                 ![r].writeError = @ + res.writeError]
       /\ panicMsg' = [panicMsg EXCEPT ![r] = res.panic]
       /\ pc' = [pc EXCEPT ![r] = IF res.panic # "" THEN "panic" ELSE "done"]
  /\ UNCHANGED <<gvars, lvars, phase, files, opts, hvars, req, evalRes, ss, hret, dispatched>>

(***************************************************************************)
(* An arbitrary grpc.StreamHandler given to NewHandler: it may call the    *)
(* stream operations in any order before it returns                        *)
(***************************************************************************)
\* most stream operations such a handler performs in one call
MaxOps == 3
OpsDone(r) == calls[r].recv + calls[r].send

AnyRecv(r) ==
  /\ pc[r] = "handler"
  /\ OpsDone(r) < MaxOps
  /\ LET res == RecvMsg(ss[r], req[r]) IN
       /\ ss' = [ss EXCEPT ![r] = res.s]
       /\ calls' = [calls EXCEPT ![r].recv = @ + 1,
                                 ![r].decode = @ + (IF res.decoded THEN 1 ELSE 0)]
  /\ UNCHANGED <<gvars, lvars, phase, files, opts, hvars, req, evalRes, pc, hret, w, dispatched, panicMsg>>

AnySend(r) ==
  /\ pc[r] = "handler"
  /\ OpsDone(r) < MaxOps
  /\ \E m \in {"r1", "r2"} :
       LET res == SendMsg(ss[r], m) IN
         /\ ss' = [ss EXCEPT ![r] = res.s]
         /\ calls' = [calls EXCEPT ![r].send = @ + 1]
         /\ panicMsg' = [panicMsg EXCEPT ![r] = res.panic]
         /\ pc' = [pc EXCEPT ![r] = IF res.panic # "" THEN "panic" ELSE "handler"]
  /\ UNCHANGED <<gvars, lvars, phase, files, opts, hvars, req, evalRes, hret, w, dispatched>>

AnyReturn(r) ==
  /\ pc[r] = "handler"
  /\ \E e \in {NilErr, StatusErr(CodeInternal, "m1")} :
       hret' = [hret EXCEPT ![r] = e]
  /\ pc' = [pc EXCEPT ![r] = "ret"]
  /\ UNCHANGED <<gvars, lvars, phase, files, opts, hvars, req, evalRes, ss, w, dispatched, calls, panicMsg>>

(***************************************************************************)
(* The binary-protocol surface: Server.UnknownHandler                      *)
(***************************************************************************)
\* the paths and the descriptors of the registered files
PathsOf(registry) == { registry[i].path : i \in 1..Len(registry) }

ServiceFullNames(registry) ==
  UNION { { <<registry[f].pkg, ".", registry[f].services[i].name>> :
              i \in 1..Len(registry[f].services) } : f \in 1..Len(registry) }

MethodFullNames(registry) ==
  UNION { UNION { { FullName(registry[f].pkg, registry[f].services[i].name,
                             registry[f].services[i].methods[j].name) :
                      j \in 1..Len(registry[f].services[i].methods) } :
                  i \in 1..Len(registry[f].services) } : f \in 1..Len(registry) }

\* Files.FindDescriptorByName: the descriptor registered under a full name
FindDescriptorByName(registry, name) ==
  IF name \in MethodFullNames(registry) THEN [found |-> TRUE, kind |-> "method"]
  ELSE IF name \in ServiceFullNames(registry) THEN [found |-> TRUE, kind |-> "service"]
  ELSE [found |-> FALSE, kind |-> ""]

lookupMethod_AnyDescriptor(registry, name) ==
  LET desc == FindDescriptorByName(registry, name)
  IN  IF ~desc.found THEN [nil |-> TRUE, name |-> <<>>]
      ELSE [nil |-> FALSE, name |-> name]

\* Server.lookupMethod: the method descriptor of a full name, nil when the
\* name is not registered or names a descriptor that is not a method
lookupMethod(registry, name) ==
  LET desc == FindDescriptorByName(registry, name)
  IN  IF ~desc.found THEN [nil |-> TRUE, name |-> <<>>]
      ELSE IF desc.kind # "method" THEN [nil |-> TRUE, name |-> <<>>]
      ELSE [nil |-> FALSE, name |-> name]

\* Server.UnknownHandler up to the call of callMethod: the status it returns
\* or the method descriptor it dispatches; method[1:] of an empty string is
\* a run-time panic
UnknownHandler(registry, ok, method) ==
  IF ~ok
    THEN [panic |-> "", err |-> StatusErr(CodeInternal, "m1"), md |-> <<>>]
  ELSE IF Len(method) = 0
    THEN [panic |-> "slice bounds out of range", err |-> NilErr, md |-> <<>>]
  ELSE LET fullMethod == ReplaceAll(Tail(method), "/", ".")
           md == lookupMethod(registry, fullMethod)
       IN  IF md.nil
             THEN [panic |-> "", err |-> StatusErr(CodeUnimplemented, "m1"), md |-> <<>>]
             ELSE [panic |-> "", err |-> NilErr, md |-> md.name]

NoCall == [ok |-> FALSE, method |-> <<>>, res |-> NilErr]

UnknownHandlerCall ==
  /\ phase = "serving"
  /\ gpc = "call"
  /\ LET u == UnknownHandler(files, gcall.ok, gcall.method) IN
       /\ gret' = u.err
       /\ gcalls' = IF u.panic = "" /\ u.err.nil THEN Append(gcalls, u.md) ELSE gcalls
       /\ gpc' = IF u.panic # "" THEN "panic"
                 ELSE IF u.err.nil THEN "dispatch" ELSE "done"
  /\ UNCHANGED <<phase, files, opts, hvars, rvars, lvars, gcall>>

\* callMethod for the binary-protocol call: its error is what
\* UnknownHandler returns
GrpcCallMethod ==
  /\ gpc = "dispatch"
  /\ gret' = gcall.res
  /\ gpc' = "done"
  /\ UNCHANGED <<phase, files, opts, hvars, rvars, lvars, gcall, gcalls>>

IdleGrpc ==
  /\ gcall = NoCall
  /\ gpc = "unused"
  /\ gret = NilErr
  /\ gcalls = <<>>

(***************************************************************************)
(* Loading the descriptor sets: NewServer, loadProtosets, addFiles         *)
(***************************************************************************)
\* The content of a protoset file is [readable, valid, fds]: whether the
\* file can be read, whether its bytes unmarshal, and its file descriptors.

\* the orders in which RangeFiles may yield the files of a set
SetOrders(S) ==
  { o \in [1..Cardinality(S) -> S] : \A a, b \in 1..Cardinality(S) : o[a] = o[b] => a = b }

\* protodesc.NewFiles: fails when an import of a file is not in the set
NewFilesFails(fds) == \E fd \in fds : \E d \in fd.deps : d \notin { g.path : g \in fds }

\* Files.RegisterFile: MissingDependency when a file the descriptor imports
\* is not registered yet; registering a registered path again changes nothing
RegisterFile(registry, fd) ==
  IF \E d \in fd.deps : d \notin PathsOf(registry)
    THEN [err |-> "MissingDependency", files |-> registry]
  ELSE IF fd.path \in PathsOf(registry)
    THEN [err |-> "", files |-> registry]
    ELSE [err |-> "", files |-> Append(registry, fd)]

rangeStep_LastWins(st, fd) ==
  IF fd.path \in st.seen
    THEN [st EXCEPT !.files = [i \in 1..Len(st.files) |->
                                 IF st.files[i].path = fd.path THEN fd ELSE st.files[i]]]
  ELSE LET reg == RegisterFile(st.files, fd) IN
    [err |-> st.err,
     seen |-> st.seen \cup {fd.path},
     files |-> reg.files,
     logged |-> IF reg.err # "" THEN st.logged \cup {fd.path} ELSE st.logged]

\* the callback of RangeFiles in addFiles, lines 147-158: a file that was
\* seen is skipped; an error of RegisterFile is logged and the loop goes on
rangeStep(st, fd) ==
  IF fd.path \in st.seen THEN st
  ELSE LET reg == RegisterFile(st.files, fd) IN
    [err |-> st.err,
     seen |-> st.seen \cup {fd.path},
     files |-> reg.files,
     logged |-> IF reg.err # "" THEN st.logged \cup {fd.path} ELSE st.logged]

RECURSIVE rangeFiles(_, _)
rangeFiles(order, st) ==
  IF order = <<>> THEN st ELSE rangeFiles(Tail(order), rangeStep(st, Head(order)))

\* Server.addFiles for the bytes b, RangeFiles yielding the files in order
addFiles(b, order, st) ==
  IF ~b.valid THEN [st EXCEPT !.err = "unmarshal"]
  ELSE IF NewFilesFails(b.fds) THEN [st EXCEPT !.err = "unresolved import"]
  ELSE rangeFiles(order, st)

\* the names of the virtual filesystem in the order of fs.Glob (sorted)
SortedNames == << <<"_", "b", ".pb">>, <<"a", ".pb">>, <<"c", ".txt">>, <<"d", ".pb">> >>
Glob_AnyExtension(fsys) == SelectSeq(SortedNames, LAMBDA n : n \in DOMAIN fsys)

\* fs.Glob(s.fs, "*.pb")
Glob(fsys) == SelectSeq(SortedNames, LAMBDA n : n \in DOMAIN fsys /\ n[Len(n)] = ".pb")
HasPrefix(name, tok) == Len(name) > 0 /\ name[1] = tok

LoadState == [err |-> "", seen |-> seen, files |-> files, logged |-> logged]

\* the outcome of loading one protoset file
LoadOne(b, next) ==
  IF ~b.readable
    THEN /\ loadErr' = "read"
         /\ phase' = "failed"
         /\ UNCHANGED <<seen, files, logged, li, mi>>
    ELSE \E order \in SetOrders(b.fds) :
           LET a == addFiles(b, order, LoadState) IN
             IF a.err # ""
               THEN /\ loadErr' = a.err
                    /\ phase' = "failed"
                    /\ UNCHANGED <<seen, files, logged, li, mi>>
               ELSE /\ seen' = a.seen
                    /\ files' = a.files
                    /\ logged' = a.logged
                    /\ IF next = "li" THEN li' = li + 1 /\ mi' = mi
                                      ELSE mi' = mi + 1 /\ li' = li
                    /\ UNCHANGED <<loadErr, phase>>

\* loadProtosets, first loop: the next explicit protoset
LoadExplicit ==
  /\ phase = "new" /\ lstep = "explicit" /\ li <= Len(protosets)
  /\ LoadOne(protosets[li], "li")
  /\ UNCHANGED <<opts, hvars, rvars, gvars, protosets, vfs, lstep, matches>>

\* loadProtosets, line 118: the explicit protosets are loaded, glob
GlobFiles ==
  /\ phase = "new" /\ lstep = "explicit" /\ li > Len(protosets)
  /\ matches' = Glob(vfs)
  /\ lstep' = "glob"
  /\ UNCHANGED <<phase, files, opts, hvars, rvars, gvars, protosets, vfs, li, mi, seen,
                 logged, loadErr>>

\* loadProtosets, second loop: the next match, skipped when its name starts
\* with an underscore
LoadDiscovered ==
  /\ phase = "new" /\ lstep = "glob" /\ mi <= Len(matches)
  /\ IF HasPrefix(matches[mi], "_")
       THEN /\ mi' = mi + 1
            /\ UNCHANGED <<phase, files, li, seen, logged, loadErr>>
       ELSE LoadOne(vfs[matches[mi]], "mi")
  /\ UNCHANGED <<opts, hvars, rvars, gvars, protosets, vfs, lstep, matches>>

\* loadProtosets returns nil
FinishLoad ==
  /\ phase = "new" /\ lstep = "glob" /\ mi > Len(matches)
  /\ lstep' = "done"
  /\ phase' = "loaded"
  /\ UNCHANGED <<files, opts, hvars, rvars, gvars, protosets, vfs, li, matches, mi, seen,
                 logged, loadErr>>

\* the loading state of a server whose Registry is built
LoadedIdle ==
  /\ protosets = <<>>
  /\ vfs = <<>>
  /\ lstep = "done"
  /\ li = 1
  /\ matches = <<>>
  /\ mi = 1
  /\ seen = PathsOf(files)
  /\ logged = {}
  /\ loadErr = ""

(***************************************************************************)
(* Specifications of the REST surface                                      *)
(***************************************************************************)
\* the Handler before NewHandler runs and the request slots, for given
\* inputs: slots outside active stay unused
InitRestVars(o, active, requests, results) ==
  /\ opts = o
  /\ httpMethods = <<>>
  /\ ruleTemplates = <<>>
  /\ defaultHandler = "nil"
  /\ grpcHandler = "nil"
  /\ req = [r \in Reqs |-> IF r \in active THEN requests[r] ELSE NoRequest]
  /\ evalRes = [r \in Reqs |-> IF r \in active THEN results[r] ELSE EvalOK("r1")]
  /\ pc = [r \in Reqs |-> IF r \in active THEN "serve" ELSE "unused"]
  /\ ss = [r \in Reqs |-> NoStream]
  /\ hret = [r \in Reqs |-> NilErr]
  /\ w = [r \in Reqs |-> NewResponseWriter]
  /\ dispatched = [r \in Reqs |-> <<>>]
  /\ calls = [r \in Reqs |-> NoCalls]
  /\ panicMsg = [r \in Reqs |-> ""]

\* the state after loadProtosets built the Registry, before NewHandler runs
InitRest(registry, o, active, requests, results) ==
  /\ phase = "loaded"
  /\ files = registry
  /\ InitRestVars(o, active, requests, results)
  /\ IdleGrpc
  /\ LoadedIdle

Next ==
  \/ Construct
  \/ \E r \in Reqs : ServeHTTP(r)
  \/ \E r \in Reqs : CallRecv(r)
  \/ \E r \in Reqs : CallEval(r)
  \/ \E r \in Reqs : CallSend(r)
  \/ \E r \in Reqs : serveHTTPMethodReturn(r)

\* routing: every registry, template option, default handler and request
\* line; one request
RoutePaths == Paths \cup {<<<<"p", ".", "S">>, <<"M1">>>>}
InitRoute ==
  \E registry \in RestRegistries, dh \in {"", "custom"}, tmpls \in {<<>>, <<TemplatePost>>},
     verb \in Verbs, path \in RoutePaths :
    InitRest(registry, Options("callMethod", dh, tmpls), {1},
             [r \in Reqs |-> Request(verb, path, NoHeader, NoHeader, "ok")],
             [r \in Reqs |-> EvalOK("r1")])
SpecRoute == InitRoute /\ [][Next]_vars


\* outcomes: one registry, every header pair the negotiation tells apart,
\* every Evaluator result; one request
OutcomeRegistry ==
  <<FileOf("a.proto", "p", {},
           <<[name |-> "M1", rules |-> <<RuleId>>], [name |-> "M2", rules |-> <<RulePost>>]>>)>>
OutcomeRequests ==
  { Request("GET", <<<<"v1">>, <<"users">>, <<"42">>>>, a, c, b) :
      a \in HeaderValues, c \in {NoHeader, Hdr(ContentTypeBinaryProto), Hdr("text/html")},
      b \in {"ok", "bad"} }
InitOutcome ==
  \E rq \in OutcomeRequests, res \in EvalResults :
    InitRest(OutcomeRegistry, Options("callMethod", "", <<>>), {1},
             [r \in Reqs |-> rq], [r \in Reqs |-> res])
SpecOutcome == InitOutcome /\ [][Next]_vars

\* the Handler with an arbitrary grpc.StreamHandler
NextAny ==
  \/ Construct
  \/ \E r \in Reqs : ServeHTTP(r)
  \/ \E r \in Reqs : AnyRecv(r)
  \/ \E r \in Reqs : AnySend(r)
  \/ \E r \in Reqs : AnyReturn(r)
  \/ \E r \in Reqs : serveHTTPMethodReturn(r)

InitAny ==
  \E a \in {NoHeader, Hdr(ContentTypeBinaryProto), Hdr("text/html")} :
    InitRest(OutcomeRegistry, Options("any", "", <<>>), Reqs,
             [r \in Reqs |-> Request("GET", <<<<"v1">>, <<"users">>, <<"42">>>>, a, NoHeader, "ok")],
             [r \in Reqs |-> EvalOK("r1")])
SpecAny == InitAny /\ [][NextAny]_vars

(***************************************************************************)
(* Properties of the REST surface                                          *)
(***************************************************************************)
\* the entries of the rule table whose rule matches the request of r
Matching(r) ==
  { i \in 1..Len(httpMethods) : ~MatchRequest(httpMethods[i].rule, req[r]).nil }
Served(r) == pc[r] \notin {"unused", "serve"}

\* C1: Handler.ServeHTTP is first-match-wins: once a request is served, the
\* grpc handler was called exactly once, for the matching entry of the lowest
\* index and under the name of its method, whatever the order of the
\* entries is; no entry is dispatched when none matches, and none before
\* the request is served.
C1_FirstMatchWins ==
  \A r \in Reqs :
    /\ ~Served(r) => dispatched[r] = <<>>
    /\ Served(r) /\ Matching(r) = {} => dispatched[r] = <<>>
    /\ Served(r) /\ Matching(r) # {} =>
         /\ Len(dispatched[r]) = 1
         /\ dispatched[r][1].entry \in Matching(r)
         /\ \A j \in Matching(r) : dispatched[r][1].entry <= j
         /\ dispatched[r][1].name = httpMethods[dispatched[r][1].entry].desc

\* two entries of different methods match and the request is served
C1_Witness ==
  \E r \in Reqs :
    /\ pc[r] = "done"
    /\ \E i, j \in Matching(r) : i < j /\ httpMethods[i].desc # httpMethods[j].desc
    /\ Len(dispatched[r]) = 1


\* C9: when no entry matches, the default handler serves the request, once:
\* the NotFound handler (404) unless WithDefaultHandler configured another;
\* neither the grpc handler nor a stream adapter is used for that request.
\* The default handler never runs for a request that some entry matches.
C9_DefaultOnlyOnNoMatch ==
  \A r \in Reqs :
    /\ Served(r) /\ Matching(r) = {} =>
         /\ pc[r] = "done"
         /\ calls[r] = [NoCalls EXCEPT !.default = 1]
         /\ dispatched[r] = <<>>
         /\ ~ss[r].exists
         /\ Len(w[r].body) = 1
         /\ IF opts.defaultHandler = ""
              THEN w[r].status = 404 /\ w[r].body[1].val = "404 page not found"
              ELSE w[r].body[1].val = opts.defaultHandler
    /\ Matching(r) # {} => calls[r].default = 0
    /\ ~Served(r) => calls[r].default = 0

\* no entry matched and the NotFound handler answered
C9_Witness ==
  \E r \in Reqs :
    /\ pc[r] = "done" /\ Matching(r) = {} /\ Len(httpMethods) > 0
    /\ calls[r].default = 1 /\ w[r].status = 404

\* the header the negotiation reads names a media type that is neither of
\* the two supported ones
Unsupported(r) ==
  LET a == IF req[r].accept # NoHeader THEN req[r].accept ELSE req[r].contentType
  IN  /\ a # NoHeader
      /\ ~RawEquals(a, "*/*")
      /\ ~ParseMediaType(a).err
      /\ ParseMediaType(a).mediaType \notin {ContentTypeJSON, ContentTypeBinaryProto}

\* C3: for a matched request that asks for an unsupported media type,
\* RecvMsg fails before DecodeRequest runs, the Evaluator is not called, no
\* response is stored, and the request ends with the error response (the
\* negotiation error as status Unknown) and no success response.
C3_UnsupportedRejectedBeforeDispatch ==
  \A r \in Reqs :
    ss[r].exists /\ Unsupported(r) =>
      /\ pc[r] \in {"recv", "ret", "done"}
      /\ calls[r].decode = 0
      /\ calls[r].eval = 0
      /\ calls[r].send = 0
      /\ ss[r].resp = NilMsg
      /\ calls[r].recv >= 1 => ~hret[r].nil /\ ss[r].acceptType = ""
      /\ pc[r] = "done" =>
           /\ calls[r].writeError = 1 /\ calls[r].writeResp = 0
           /\ w[r].status = 500
           /\ Len(w[r].body) = 1 /\ w[r].body[1].kind = "status"
           /\ w[r].body[1].code = CodeUnknown

\* a matched request for text/html with a body that would not bind ended in
\* the error response
C3_Witness ==
  \E r \in Reqs :
    /\ pc[r] = "done" /\ ss[r].exists /\ Unsupported(r)
    /\ req[r].body = "bad"
    /\ calls[r].recv = 1 /\ calls[r].writeError = 1

\* the encoding a marshaler produces for a negotiated media type
EncodingOf(mediaType) ==
  IF mediaType = ContentTypeBinaryProto THEN "proto.Marshal" ELSE "protojson.Marshal"

Untouched(r) == w[r] = NewResponseWriter
IsErrorResponse(r) ==
  /\ calls[r].writeError = 1
  /\ Len(w[r].body) = 1
  /\ w[r].body[1].kind = "status"
IsSuccessResponse(r) ==
  /\ calls[r].writeResp = 1 /\ calls[r].writeError = 0
  /\ w[r].status = 200
  /\ w[r].body = <<[enc |-> EncodingOf(ss[r].acceptType), kind |-> "msg",
                    val |-> ss[r].resp, code |-> 0]>>
  /\ ss[r].acceptType \in {ContentTypeJSON, ContentTypeBinaryProto}
  /\ ss[r].resp # NilMsg

\* C5 as stated: a matched request ends in exactly one outcome, written
\* after the dispatcher returned: the success response (200, the stored
\* response in the negotiated encoding) when the dispatcher returned no
\* error, the error response when it returned an error.
C5_Original ==
  \A r \in Reqs :
    ss[r].exists =>
      /\ pc[r] # "done" => Untouched(r)
      /\ pc[r] = "done" =>
           IF hret[r].nil
             THEN IsSuccessResponse(r)
             ELSE IsErrorResponse(r) /\ calls[r].writeResp = 0

\* C5, amended: a matched request ends in exactly one outcome, written once
\* and only after the dispatcher returned: the success response when the
\* dispatcher returned no error and the stored response marshals; the error
\* response when the dispatcher returned an error or the stored response
\* does not marshal.  The Evaluator and the dispatcher run at most once.
C5_OneOutcome ==
  \A r \in Reqs :
    ss[r].exists =>
      /\ pc[r] # "done" => Untouched(r)
      /\ pc[r] # "panic"
      /\ calls[r].eval <= 1 /\ Len(dispatched[r]) = 1
      /\ pc[r] = "done" =>
           IF hret[r].nil /\ Marshalable(ss[r].resp)
             THEN IsSuccessResponse(r)
             ELSE /\ IsErrorResponse(r)
                  /\ w[r].body[1].val # ss[r].resp
                  /\ calls[r].writeResp = (IF hret[r].nil THEN 1 ELSE 0)

\* both outcomes are reached: this one is the success response in the
\* binary encoding
C5_Witness ==
  \E r \in Reqs :
    /\ pc[r] = "done" /\ hret[r].nil /\ IsSuccessResponse(r)
    /\ ss[r].acceptType = ContentTypeBinaryProto

\* C6: a marshalling failure never leaves a matched request without a
\* response: when the status of an error does not marshal, 500 and the fixed
\* payload with code 13 are written; when the stored response does not
\* marshal, the error response (status Unknown, 500) is written; every
\* finished matched request has a response body, and none ends in a panic.
C6_AlwaysAResponse ==
  \A r \in Reqs :
    ss[r].exists =>
      /\ pc[r] # "panic"
      /\ pc[r] = "done" =>
           /\ Len(w[r].body) >= 1
           /\ w[r].status # 0
           /\ ~hret[r].nil /\ ~Marshalable(Convert(hret[r]).msg) =>
                /\ w[r].status = 500
                /\ w[r].body = <<errMarshalFailed>>
                /\ errMarshalFailed.code = 13
           /\ hret[r].nil /\ ~Marshalable(ss[r].resp) =>
                /\ w[r].status = 500
                /\ Len(w[r].body) = 1
                /\ w[r].body[1].kind = "status" /\ w[r].body[1].code = CodeUnknown

\* the status of the dispatch error did not marshal and the fixed payload
\* was written
C6_Witness ==
  \E r \in Reqs :
    /\ pc[r] = "done" /\ ~hret[r].nil /\ ~Marshalable(hret[r].msg)
    /\ w[r].body = <<errMarshalFailed>>

\* the documented HTTP status of the RPC codes 0..16
DocumentedHTTPStatus ==
  <<200, 499, 500, 400, 504, 404, 409, 403, 429, 400, 409, 400, 501, 500, 503, 500, 401>>

\* C7 as stated: when the dispatch fails with status code c and message m,
\* the HTTP status is the documented one of c and the body is the encoded
\* status with c and m.
C7_Original ==
  \A r \in Reqs :
    pc[r] = "done" /\ ss[r].exists /\ ~hret[r].nil /\ hret[r].isStatus =>
      /\ w[r].status = DocumentedHTTPStatus[hret[r].code + 1]
      /\ Len(w[r].body) = 1
      /\ w[r].body[1].kind = "status"
      /\ w[r].body[1].code = hret[r].code
      /\ w[r].body[1].val = hret[r].msg

\* C7, amended: when the dispatch fails with status code c and message m and
\* the status marshals, the HTTP status is the documented one of c and the
\* body is the status with c and m in the negotiated encoding (JSON when
\* none was negotiated); when the status does not marshal, 500 and the
\* fixed payload are written.
C7_StatusMapped ==
  \A r \in Reqs :
    pc[r] = "done" /\ ss[r].exists /\ ~hret[r].nil /\ hret[r].isStatus =>
      IF Marshalable(hret[r].msg)
        THEN /\ w[r].status = DocumentedHTTPStatus[hret[r].code + 1]
             /\ w[r].body = <<[enc |-> EncodingOf(ss[r].acceptType), kind |-> "status",
                               val |-> hret[r].msg, code |-> hret[r].code]>>
        ELSE /\ w[r].status = 500
             /\ w[r].body = <<errMarshalFailed>>

\* the Evaluator failed with Unauthenticated and the client got 401
C7_Witness ==
  \E r \in Reqs :
    /\ pc[r] = "done" /\ calls[r].eval = 1
    /\ hret[r] = StatusErr(16, "m1")
    /\ w[r].status = 401

\* C2 as stated: a second SendMsg on the stream of a call is answered with
\* an error, not with a panic, and leaves the stored response unchanged.
C2_SecondSendRejected ==
  \A r \in Reqs :
    calls[r].send >= 2 => panicMsg[r] = "" /\ pc[r] # "panic"


(***************************************************************************)
(* Content negotiation                                                     *)
(***************************************************************************)
\* every pair of Accept and Content-Type values; one request
InitNegotiate ==
  \E a \in HeaderValues, c \in HeaderValues :
    InitRest(OutcomeRegistry, Options("callMethod", "", <<>>), {1},
             [r \in Reqs |-> Request("GET", <<<<"v1">>, <<"users">>, <<"42">>>>, a, c, "ok")],
             [r \in Reqs |-> EvalOK("r1")])
SpecNegotiate == InitNegotiate /\ [][Next]_vars

\* what a header value asks for: a supported media type, with or without a
\* parameter and in either case, or "" for anything else
Asks(h) ==
  IF h.param # "malformed" /\ h.base \in {ContentTypeJSON, ContentTypeBinaryProto}
    THEN h.base ELSE ""

\* C8: once RecvMsg negotiated, the negotiated type is what the Accept
\* header asks for; what the Content-Type header asks for when there is no
\* Accept header; JSON when there is neither (and for Accept: */*).  It is
\* JSON, binary, or none together with an error; never another type.
C8_Negotiation ==
  \A r \in Reqs :
    ss[r].exists /\ calls[r].recv >= 1 =>
      LET a == req[r].accept
          c == req[r].contentType
          t == ss[r].acceptType
      IN  /\ t \in {ContentTypeJSON, ContentTypeBinaryProto, ""}
          /\ t = "" <=> (~hret[r].nil /\ calls[r].decode = 0)
          /\ a # NoHeader /\ a # StarStar => t = Asks(a)
          /\ a = StarStar => t = ContentTypeJSON
          /\ a = NoHeader /\ c # NoHeader /\ c # StarStar => t = Asks(c)
          /\ a = NoHeader /\ c \in {NoHeader, StarStar} => t = ContentTypeJSON

\* no Accept header, Content-Type binary: the binary type is negotiated
C8_Witness ==
  \E r \in Reqs :
    /\ calls[r].recv = 1
    /\ req[r].accept = NoHeader
    /\ req[r].contentType.base = ContentTypeBinaryProto
    /\ ss[r].acceptType = ContentTypeBinaryProto

(***************************************************************************)
(* The binary-protocol surface                                             *)
(***************************************************************************)
GrpcTokens == {"/", ".", "p", "S", "M1"}
GrpcRegistry ==
  <<FileOf("a.proto", "p", {}, <<[name |-> "M1", rules |-> <<>>]>>)>>

\* The method strings the transport hands to the unknown-service handler:
\* after an optional leading slash they hold a slash that separates the
\* service from the method; the transport answers other strings itself.
Deliverable(m) ==
  LET sm == IF Len(m) > 0 /\ m[1] = "/" THEN Tail(m) ELSE m
  IN  \E i \in 1..Len(sm) : sm[i] = "/"
GrpcMethods == { m \in SeqsUpTo(GrpcTokens, MaxMethodLen) : Deliverable(m) }

InitGrpc ==
  /\ phase = "loaded"
  /\ files = GrpcRegistry
  /\ InitRestVars(Options("callMethod", "", <<>>), {}, [r \in Reqs |-> NoRequest],
                  [r \in Reqs |-> EvalOK("r1")])
  /\ LoadedIdle
  /\ gcall \in { [ok |-> TRUE, method |-> m, res |-> e] :
                   m \in GrpcMethods, e \in {NilErr, StatusErr(CodeInternal, "m1")} }
               \cup {NoCall}
  /\ gpc = "call"
  /\ gret = NilErr
  /\ gcalls = <<>>

NextGrpc ==
  \/ Construct
  \/ UnknownHandlerCall
  \/ GrpcCallMethod
SpecGrpc == InitGrpc /\ [][NextGrpc]_vars

\* '/pkg.Service/Method' as the dotted name 'pkg.Service.Method'
Dotted(m) == [i \in 1..(Len(m) - 1) |-> IF m[i + 1] = "/" THEN "." ELSE m[i + 1]]

\* C4: a binary-protocol call whose method, as a dotted name, is not a
\* registered method (absent, or the name of a service) is answered with
\* Unimplemented and the dispatcher is not invoked; a call of a registered
\* method is dispatched under that name; no call ends in a panic.
C4_UnregisteredUnimplemented ==
  /\ gpc # "panic"
  /\ gpc \in {"dispatch", "done"} /\ gcall.ok =>
       IF Dotted(gcall.method) \in MethodFullNames(files)
         THEN gcalls = <<Dotted(gcall.method)>>
         ELSE /\ gpc = "done"
              /\ gcalls = <<>>
              /\ gret.isStatus /\ gret.code = 12
  /\ gpc \in {"dispatch", "done"} /\ ~gcall.ok =>
       gpc = "done" /\ gcalls = <<>> /\ gret.isStatus /\ gret.code = CodeInternal

\* the call '/p/S' names the service p.S, not a method: Unimplemented
C4_Witness ==
  /\ gpc = "done"
  /\ gcall.method = <<"/", "p", "/", "S">>
  /\ gret.code = CodeUnimplemented /\ gcalls = <<>>

(***************************************************************************)
(* Loading                                                                 *)
(***************************************************************************)
\* most explicit protoset paths
MaxProtosets == 2

FileA == FileOf("a.proto", "p", {}, <<[name |-> "M1", rules |-> <<RuleLit>>]>>)
FileB == FileOf("b.proto", "q", {"a.proto"}, <<[name |-> "M1", rules |-> <<>>]>>)
\* a.proto with other content, as a second source may hold it
FileA2 == FileOf("a.proto", "p", {}, <<[name |-> "M2", rules |-> <<RuleId>>]>>)

ProtosetOf(fds) == [readable |-> TRUE, valid |-> TRUE, fds |-> fds]
Unreadable == [readable |-> FALSE, valid |-> FALSE, fds |-> {}]
Garbage == [readable |-> TRUE, valid |-> FALSE, fds |-> {}]
ProtosetContents ==
  {ProtosetOf({FileA}), ProtosetOf({FileA, FileB}), ProtosetOf({FileB}),
   ProtosetOf({FileA2}), Unreadable, Garbage}

\* the virtual filesystems: any of the names, each with some content
VirtualFilesystems ==
  UNION { [names -> {ProtosetOf({FileA2}), ProtosetOf({FileA, FileB})}] :
            names \in SUBSET { SortedNames[i] : i \in 1..Len(SortedNames) } }

InitLoad ==
  /\ phase = "new"
  /\ files = <<>>
  /\ InitRestVars(Options("callMethod", "", <<>>), {}, [r \in Reqs |-> NoRequest],
                  [r \in Reqs |-> EvalOK("r1")])
  /\ IdleGrpc
  /\ protosets \in SeqsUpTo(ProtosetContents, MaxProtosets)
  /\ vfs \in VirtualFilesystems
  /\ lstep = "explicit"
  /\ li = 1
  /\ matches = <<>>
  /\ mi = 1
  /\ seen = {}
  /\ logged = {}
  /\ loadErr = ""

NextLoad ==
  \/ LoadExplicit
  \/ GlobFiles
  \/ LoadDiscovered
  \/ FinishLoad
  \/ Construct
SpecLoad == InitLoad /\ [][NextLoad]_vars

\* C10 as stated: a file whose registration failed while the descriptor
\* sets were loaded aborts startup: the server does not get past loading.
C10_LoadErrorFatal ==
  logged # {} => phase \notin {"loaded", "serving"}


\* the contents of the protoset files loaded so far, in load order: the
\* explicit ones, then the globbed ones whose name has no underscore prefix
LoadedContents ==
  LET ms == SelectSeq(SubSeq(matches, 1, mi - 1), LAMBDA n : ~HasPrefix(n, "_"))
  IN  SubSeq(protosets, 1, li - 1) \o [j \in 1..Len(ms) |-> vfs[ms[j]]]
PathsIn(b) == { fd.path : fd \in b.fds }

\* C11: loading is idempotent per file path: no path is registered twice,
\* every registered descriptor is the one of the first loaded set that holds
\* its path (a later set with the same path does not replace it), and seen
\* holds exactly the paths of the loaded sets.
C11_FirstOccurrenceWins ==
  /\ \A i, j \in 1..Len(files) : files[i].path = files[j].path => i = j
  /\ \A i \in 1..Len(files) :
       \E k \in 1..Len(LoadedContents) :
         /\ files[i] \in LoadedContents[k].fds
         /\ \A k2 \in 1..(k - 1) : files[i].path \notin PathsIn(LoadedContents[k2])
  /\ phase # "failed" =>
       seen = UNION { PathsIn(LoadedContents[k]) : k \in 1..Len(LoadedContents) }

\* a.proto was loaded from two sources with different content and the
\* Registry holds the first
C11_Witness ==
  /\ phase = "loaded"
  /\ \E k1, k2 \in 1..Len(LoadedContents) :
       /\ k1 < k2
       /\ FileA2 \in LoadedContents[k1].fds
       /\ FileA \in LoadedContents[k2].fds
  /\ \E i \in 1..Len(files) : files[i] = FileA2


\* rule-table construction: two files, one of them with two services,
\* methods with none, one or two declared rules, and none, one or two
\* fallback templates; one request
TemplateGet ==
  [verb |-> "GET", tmpl |-> <<Lit(<<"{service}">>), Lit(<<"{method}">>), Rest("rest")>>]
TemplateLists == {<<>>, <<TemplatePost>>, <<TemplatePost, TemplateGet>>}
RulesMethodLists ==
  { <<[name |-> "M1", rules |-> r1], [name |-> "M2", rules |-> r2]>> :
      r1 \in {<<>>, <<RuleId, RuleRest>>}, r2 \in {<<>>, <<RulePost>>} }
RulesRegistries ==
  { << FileOf("a.proto", "p", {}, ms1),
       [path |-> "b.proto", pkg |-> "q", deps |-> {},
        services |-> <<[name |-> "S", methods |-> ms2],
                       [name |-> "T", methods |-> <<[name |-> "M1", rules |-> <<>>]>>]>>] >> :
      ms1 \in RulesMethodLists, ms2 \in RulesMethodLists }
RulesRequests ==
  { Request("GET", <<<<"v1">>, <<"users">>, <<"42">>>>, NoHeader, NoHeader, "ok"),
    Request("POST", <<<<"q", ".", "T">>, <<"M1">>>>, NoHeader, NoHeader, "ok"),
    Request("GET", <<<<"S">>, <<"M2">>, <<"42">>>>, NoHeader, NoHeader, "ok") }
InitRules ==
  \E registry \in RulesRegistries, tmpls \in TemplateLists, rq \in RulesRequests :
    InitRest(registry, Options("callMethod", "", tmpls), {1},
             [r \in Reqs |-> rq], [r \in Reqs |-> EvalOK("r1")])
SpecRules == InitRules /\ [][Next]_vars

\* what the documented synthesis makes of a template for a method
Subst(tok, fd, sd, md) ==
  CASE tok = "{package}" -> fd.pkg
    [] tok = "{service}" -> sd.name
    [] tok = "{method}" -> md.name
    [] OTHER -> tok
ExpectedSynth(t, fd, sd, md) ==
  [verb |-> t.verb,
   tmpl |-> [j \in 1..Len(t.tmpl) |->
               IF t.tmpl[j].k = "lit"
                 THEN Lit([n \in 1..Len(t.tmpl[j].v) |-> Subst(t.tmpl[j].v[n], fd, sd, md)])
                 ELSE t.tmpl[j]]]
ExpectedRules(fd, sd, md) ==
  IF md.rules # <<>> THEN md.rules
  ELSE [i \in 1..Len(opts.ruleTemplates) |-> ExpectedSynth(opts.ruleTemplates[i], fd, sd, md)]
ExpectedEntries(fd, sd, md) ==
  [i \in 1..Len(ExpectedRules(fd, sd, md)) |->
     [desc |-> <<fd.pkg, ".", sd.name, ".", md.name>>, rule |-> ExpectedRules(fd, sd, md)[i]]]
ExpectedTable(order) ==
  Flatten([f \in 1..Len(order) |->
    Flatten([i \in 1..Len(order[f].services) |->
      Flatten([j \in 1..Len(order[f].services[i].methods) |->
        ExpectedEntries(order[f], order[f].services[i],
                        order[f].services[i].methods[j])])])])

\* C12 as stated: the table holds, for every method, its declared rules or
\* else one synthesized rule per template, the entries in the order file,
\* service, method, rule of the Registry, and the templates are unmodified.
C12_Original ==
  phase = "serving" =>
    /\ httpMethods = ExpectedTable(files)
    /\ ruleTemplates = opts.ruleTemplates

\* C12: the table holds, for every method, exactly its declared rules if it
\* declares any, else exactly one synthesized rule per configured template
\* in template order with the placeholders replaced by the method's names
\* (none if no template is configured); the entries of a file appear in the
\* order service, method, rule, the files in some order RangeFiles yields
\* them; the configured templates are unmodified.
C12_RuleTable ==
  phase = "serving" =>
    /\ \E order \in RangeOrders(files) : httpMethods = ExpectedTable(order)
    /\ ruleTemplates = opts.ruleTemplates

\* a table built from two templates where one method declares two rules and
\* others are synthesized, the second file's entries before the first's
C12_Witness ==
  /\ phase = "serving"
  /\ Len(opts.ruleTemplates) = 2
  /\ Len(files) = 2
  /\ files[1].services[1].methods[1].rules = <<RuleId, RuleRest>>
  /\ files[1].services[1].methods[2].rules = <<>>
  /\ httpMethods = ExpectedTable(<<files[2], files[1]>>)
  /\ Len(httpMethods) > 6


(***************************************************************************)
(* Both surfaces serving concurrently                                      *)
(***************************************************************************)
\* two REST requests and one binary-protocol call in flight at once, their
\* steps interleaved in every order
ServeRequests ==
  { Request("GET", <<<<"v1">>, <<"users">>, <<"42">>>>, NoHeader, NoHeader, "ok"),
    Request("GET", <<<<"v1">>, <<"users">>, <<"42">>>>, Hdr(ContentTypeBinaryProto), NoHeader, "bad"),
    Request("GET", <<<<"v1">>, <<"users">>, <<"v1">>>>, Hdr("text/html"), NoHeader, "ok"),
    Request("POST", <<<<"v1">>, <<"users">>>>, NoHeader, Hdr(ContentTypeBinaryProto), "ok"),
    Request("GET", <<<<"42">>>>, NoHeader, NoHeader, "ok") }
ServeResults == {EvalOK("r1"), EvalOK("rBad"), EvalErr(CodeInvalidArgument, "m1")}
ServeCalls ==
  { [ok |-> TRUE, method |-> <<"/", "p", ".", "S", "/", "M1">>, res |-> NilErr],
    [ok |-> TRUE, method |-> <<"/", "p", ".", "S", "/", "M3">>, res |-> NilErr],
    NoCall }
InitServe ==
  /\ phase = "loaded"
  /\ files = OutcomeRegistry
  /\ \E rq \in [Reqs -> ServeRequests], res \in [Reqs -> ServeResults] :
       InitRestVars(Options("callMethod", "", <<>>), Reqs, rq, res)
  /\ LoadedIdle
  /\ gcall \in ServeCalls
  /\ gpc = "call"
  /\ gret = NilErr
  /\ gcalls = <<>>
NextServe ==
  \/ Construct
  \/ \E r \in Reqs : ServeHTTP(r)
  \/ \E r \in Reqs : CallRecv(r)
  \/ \E r \in Reqs : CallEval(r)
  \/ \E r \in Reqs : CallSend(r)
  \/ \E r \in Reqs : serveHTTPMethodReturn(r)
  \/ UnknownHandlerCall
  \/ GrpcCallMethod
SpecServe == InitServe /\ [][NextServe]_vars

\* C13: once NewHandler has returned, no step of any request, on either
\* surface and however the requests interleave, changes the registered
\* descriptors or the contents or order of the rule table.
C13_ImmutableAfterConstruction ==
  [][phase = "serving" => files' = files /\ httpMethods' = httpMethods]_vars

\* two REST requests were dispatched and answered and a binary-protocol
\* call was looked up, over a Registry and a table that are not empty
C13_Witness ==
  /\ phase = "serving"
  /\ \A r \in Reqs : pc[r] = "done" /\ Len(dispatched[r]) = 1
  /\ gpc = "done"
  /\ Len(gcalls) = 1
  /\ Len(httpMethods) = 2
  /\ Len(files) = 1


\* what the response writer of r holds when r is served with no other
\* request in flight: the sequential run of ServeHTTP and serveHTTPMethod on
\* the request and the Evaluator result of r
SoloResponse(r) ==
  LET i == matchLoop(httpMethods, req[r], 1)
      s0 == NewStream(i, MatchRequest(httpMethods[i].rule, req[r]).vars)
      rc == RecvMsg(s0, req[r])
  IN  IF i = 0 THEN ServeDefault(defaultHandler, NewResponseWriter)
      ELSE IF ~rc.err.nil THEN serveHTTPMethodTail(rc.s, NewResponseWriter, rc.err).w
      ELSE IF ~evalRes[r].err.nil
        THEN serveHTTPMethodTail(rc.s, NewResponseWriter, evalRes[r].err).w
      ELSE serveHTTPMethodTail(SendMsg(rc.s, evalRes[r].resp).s, NewResponseWriter, NilErr).w

\* the adapter of r holds only what r itself put there
OwnAdapter(r) ==
  ss[r].exists =>
    /\ ss[r].rule = matchLoop(httpMethods, req[r], 1)
    /\ ss[r].vars = MatchRequest(httpMethods[ss[r].rule].rule, req[r]).vars
    /\ ss[r].acceptType \in {"", getAcceptType(req[r].accept, req[r].contentType).mediaType}
    /\ ss[r].resp \in {NilMsg, evalRes[r].resp}

\* a step is a step of one request and leaves every other request alone
StepOfOne ==
  /\ \A r, q \in Reqs : r # q => pc'[r] = pc[r] \/ pc'[q] = pc[q]
  /\ \A q \in Reqs :
       pc'[q] = pc[q] =>
         /\ ss'[q] = ss[q] /\ w'[q] = w[q] /\ hret'[q] = hret[q]
         /\ dispatched'[q] = dispatched[q] /\ calls'[q] = calls[q]
         /\ panicMsg'[q] = panicMsg[q]

\* C14: under every interleaving of concurrent REST requests the adapter of
\* a request holds only that request's negotiated type, bindings and
\* response, a step of one request changes nothing of another, every
\* request finishes, and the response written for it is the one it gets
\* when served alone, whatever happened to the other requests.
C14_AdapterIsolation ==
  /\ [](\A r \in Reqs : /\ OwnAdapter(r)
                        /\ pc[r] # "panic"
                        /\ pc[r] = "done" => w[r] = SoloResponse(r))
  /\ [][StepOfOne]_vars

\* one request has been answered with an error while another, negotiated
\* differently, is in flight with its own response stored
C14_Witness ==
  \E r, q \in Reqs :
    /\ r # q
    /\ pc[q] = "done" /\ IsErrorResponse(q)
    /\ pc[r] = "ret" /\ hret[r].nil /\ ss[r].resp = "r1"
    /\ ss[r].acceptType # ss[q].acceptType
    /\ req[r] # req[q]


\* entry i matches the request of r with an empty binding map
MatchesEmpty(r, i) == MatchRequest(httpMethods[i].rule, req[r]) = Bound(<<>>)

\* C15: an entry that matches with an empty binding map is a match: when no
\* entry before it matches, the request is dispatched to it, with an adapter
\* whose bindings are empty, and neither a later entry nor the default
\* handler serves the request; the loop passes only entries whose result is
\* 'no match'.
C15_EmptyBindingsMatch ==
  \A r \in Reqs :
    /\ \A i \in 1..Len(httpMethods) :
         (/\ Served(r)
          /\ MatchesEmpty(r, i)
          /\ \A j \in 1..(i - 1) : MatchRequest(httpMethods[j].rule, req[r]).nil)
         => /\ dispatched[r] = <<[entry |-> i, name |-> httpMethods[i].desc]>>
            /\ ss[r].exists /\ ss[r].rule = i /\ ss[r].vars = <<>>
            /\ calls[r].default = 0
    /\ ss[r].exists =>
         \A j \in 1..(ss[r].rule - 1) : MatchRequest(httpMethods[j].rule, req[r]) = NoMatch

\* a request served by an entry without variables while a later entry
\* matches it with a binding
C15_Witness ==
  \E r \in Reqs :
    /\ pc[r] = "done"
    /\ Len(httpMethods) = 2
    /\ MatchesEmpty(r, 1)
    /\ ~MatchRequest(httpMethods[2].rule, req[r]).nil
    /\ MatchRequest(httpMethods[2].rule, req[r]).vars # <<>>
    /\ dispatched[r] = <<[entry |-> 1, name |-> httpMethods[1].desc]>>


(***************************************************************************)
(* Server.ServeHTTP: one listener for both surfaces                        *)
(***************************************************************************)
\* the media types of the binary protocol; the raw header value starts with
\* "application/grpc" when the client wrote one of them in lower case
GrpcTypes == {"application/grpc", "application/grpc+proto"}
HasGrpcPrefix(h) == h.base \in GrpcTypes /\ ~h.upper

routeOf_AnyProto(r) ==
  IF HasGrpcPrefix(r.contentType) THEN "gs" ELSE "http"

\* the condition of Server.ServeHTTP: which server gets the request
routeOf(r) ==
  IF r.protoMajor = 2 /\ HasGrpcPrefix(r.contentType) THEN "gs" ELSE "http"

RECURSIVE PathString(_)
\* r.URL.Path, the method string the binary-protocol transport reads
PathString(path) ==
  IF path = <<>> THEN <<>> ELSE <<"/">> \o Head(path) \o PathString(Tail(path))

\* the transport of grpc.Server hands a POST with a service and a method to
\* the unknown-service handler and answers every other request itself
TransportDelivers(r) == r.verb = "POST" /\ Deliverable(PathString(r.path))

ServerServeHTTP(r) ==
  /\ phase = "serving"
  /\ pc[r] = "accept"
  /\ IF routeOf(req[r]) = "gs"
       THEN /\ pc' = [pc EXCEPT ![r] = "grpc"]
            /\ IF TransportDelivers(req[r])
                 THEN /\ gcall' = [ok |-> TRUE, method |-> PathString(req[r].path),
                                   res |-> evalRes[r].err]
                      /\ gpc' = "call"
                      /\ gret' = gret
                 ELSE /\ gcall' = gcall
                      /\ gpc' = "done"
                      /\ gret' = StatusErr(CodeUnimplemented, "m1")
            /\ UNCHANGED gcalls
       ELSE /\ pc' = [pc EXCEPT ![r] = "serve"]
            /\ UNCHANGED gvars
  /\ UNCHANGED <<lvars, phase, files, opts, hvars, req, evalRes, ss, hret, w,
                 dispatched, calls, panicMsg>>

SurfaceRequests ==
  { IF major = 2 THEN OverHTTP2(Request(verb, path, NoHeader, c, "ok"))
                 ELSE Request(verb, path, NoHeader, c, "ok") :
      major \in {1, 2}, verb \in Verbs,
      path \in {<<<<"p", ".", "S">>, <<"M1">>>>, <<<<"p", ".", "S">>, <<"M3">>>>, <<<<"v1">>>>},
      c \in {NoHeader, Hdr(ContentTypeJSON), Hdr("application/grpc"),
             Hdr("application/grpc+proto"),
             [base |-> "application/grpc", upper |-> TRUE, param |-> "none"],
             [base |-> "application/grpc", upper |-> FALSE, param |-> "charset"]} }

InitSurface ==
  /\ phase = "loaded"
  /\ files = GrpcRegistry
  /\ \E tmpls \in {<<>>, <<TemplatePost>>} : opts = Options("callMethod", "", tmpls)
  /\ httpMethods = <<>>
  /\ ruleTemplates = <<>>
  /\ defaultHandler = "nil"
  /\ grpcHandler = "nil"
  /\ \E rq \in SurfaceRequests : req = [r \in Reqs |-> IF r = 1 THEN rq ELSE NoRequest]
  /\ \E res \in {EvalOK("r1"), EvalErr(CodeInternal, "m1")} : evalRes = [r \in Reqs |-> res]
  /\ pc = [r \in Reqs |-> IF r = 1 THEN "accept" ELSE "unused"]
  /\ ss = [r \in Reqs |-> NoStream]
  /\ hret = [r \in Reqs |-> NilErr]
  /\ w = [r \in Reqs |-> NewResponseWriter]
  /\ dispatched = [r \in Reqs |-> <<>>]
  /\ calls = [r \in Reqs |-> NoCalls]
  /\ panicMsg = [r \in Reqs |-> ""]
  /\ IdleGrpc
  /\ LoadedIdle
NextSurface ==
  \/ Construct
  \/ \E r \in Reqs : ServerServeHTTP(r)
  \/ \E r \in Reqs : ServeHTTP(r)
  \/ \E r \in Reqs : CallRecv(r)
  \/ \E r \in Reqs : CallEval(r)
  \/ \E r \in Reqs : CallSend(r)
  \/ \E r \in Reqs : serveHTTPMethodReturn(r)
  \/ UnknownHandlerCall
  \/ GrpcCallMethod
SpecSurface == InitSurface /\ [][NextSurface]_vars

\* the request is HTTP/2 and its Content-Type starts with application/grpc
IsGrpcRequest(r) ==
  /\ req[r].protoMajor = 2
  /\ req[r].contentType.base \in {"application/grpc", "application/grpc+proto"}
  /\ ~req[r].contentType.upper

\* C16: a request that Server.ServeHTTP has routed went to exactly one
\* surface: an HTTP/2 request whose Content-Type starts with
\* application/grpc is with the binary-protocol server, and neither the rule
\* table, a stream adapter, the default handler nor the response writer of
\* the REST handler was used for it; every other request is with the REST
\* handler and the binary-protocol server has seen no call.
C16_OneSurface ==
  \A r \in Reqs :
    pc[r] \notin {"accept", "unused"} =>
      IF IsGrpcRequest(r)
        THEN /\ pc[r] = "grpc"
             /\ gpc # "unused"
             /\ dispatched[r] = <<>> /\ ~ss[r].exists
             /\ calls[r] = NoCalls /\ Untouched(r)
        ELSE /\ pc[r] # "grpc"
             /\ gpc = "unused" /\ gcall = NoCall /\ gcalls = <<>>

\* a binary-protocol call was dispatched for a request that an entry of the
\* rule table matches
C16_Witness ==
  /\ IsGrpcRequest(1)
  /\ gpc = "done" /\ Len(gcalls) = 1
  /\ Matching(1) # {}
  /\ pc[1] = "grpc"


\* the files of the virtual filesystem that discovery is to load: extension
\* .pb and no underscore in front
Discoverable == { n \in DOMAIN vfs : n[Len(n)] = ".pb" /\ n[1] # "_" }
ExplicitPaths == UNION { PathsIn(protosets[i]) : i \in 1..Len(protosets) }
DiscoverablePaths == UNION { PathsIn(vfs[n]) : n \in Discoverable }

WrittenAs(buf) ==
  IF buf.enc = "proto.Marshal" THEN ContentTypeBinaryProto ELSE ContentTypeJSON

\* C18 as stated: in the error outcome the payload is in the negotiated
\* media type and the Content-Type header is set to it when a type was
\* negotiated; it is JSON and no Content-Type is set when none was.
C18_ErrorEncoding ==
  \A r \in Reqs :
    pc[r] = "done" /\ calls[r].writeError = 1 =>
      /\ Len(w[r].body) = 1
      /\ IF ss[r].acceptType # ""
           THEN /\ w[r].contentType = ss[r].acceptType
                /\ WrittenAs(w[r].body[1]) = ss[r].acceptType
           ELSE /\ w[r].contentType = ""
                /\ WrittenAs(w[r].body[1]) = ContentTypeJSON


\* the adapter of r is ready for writeResp: a supported negotiated type and
\* one stored response, from one successful RecvMsg and one SendMsg
ReadyForResp(r) ==
  /\ ss[r].acceptType \in {ContentTypeJSON, ContentTypeBinaryProto}
  /\ marshalerForContentType(ss[r].acceptType) # "panic"
  /\ ss[r].resp # NilMsg
  /\ calls[r].recv = 1 /\ calls[r].decode = 1 /\ calls[r].send = 1

\* C19: with the unary dispatcher, whenever the dispatcher has returned no
\* error for a matched request, and so whenever writeResp runs, the adapter
\* holds a successfully negotiated media type (JSON or binary) and exactly
\* one stored response, put there by one successful RecvMsg followed by one
\* SendMsg; writeResp runs at most once and only then, and no request ends
\* in the 'invalid content type' panic or any other.
C19_SuccessPathInvariant ==
  \A r \in Reqs :
    /\ pc[r] = "ret" /\ hret[r].nil => ReadyForResp(r)
    /\ calls[r].writeResp >= 1 =>
         /\ calls[r].writeResp = 1
         /\ hret[r].nil
         /\ ReadyForResp(r)
    /\ pc[r] # "panic" /\ panicMsg[r] = ""

\* writeResp ran for a request whose type was negotiated from Content-Type
C19_Witness ==
  \E r \in Reqs :
    /\ calls[r].writeResp = 1 /\ calls[r].writeError = 0
    /\ req[r].accept = NoHeader
    /\ ss[r].acceptType = ContentTypeBinaryProto
    /\ w[r].body = <<[enc |-> "proto.Marshal", kind |-> "msg", val |-> "r1", code |-> 0]>>

====
